---------------------------- MODULE Spec2Model ----------------------------
(***************************************************************************)
(* FGP-TV denoising driver TV_FGP_CPU and its 2D/3D operators              *)
(* (Core/regularizers_CPU/FGP_TV_core.c).                                   *)
(*                                                                         *)
(* Numbers.  A C float is modelled as a pair <<kind, n>>:                   *)
(*   <<0, n>>  the finite value n / Unit (fixed point, rounded to nearest), *)
(*   <<1, s>>  the infinity of sign s,                                      *)
(*   <<2, 0>>  NaN.                                                         *)
(* Arithmetic and comparisons follow IEEE 754 on the special values: x/0   *)
(* is an infinity or NaN, Inf*0 and Inf-Inf are NaN, and every ordered      *)
(* comparison with NaN is false.                                            *)
(*                                                                         *)
(* Arrays are sequences; the C index `index` is position index+1.          *)
(***************************************************************************)
EXTENDS Integers, Sequences, FiniteSets, TLC

\* ------------------------------------------------------------------ bounds

\* largest iteration cap `iter` passed to a 2D call
MaxIter == 7
\* largest iteration cap `iter` passed to a 3D call
MaxIter3D == 1

\* ------------------------------------------------------------- float model

\* number of representable steps per 1.0f
Unit == 2^8

F(n) == <<0, n>>
PInf == <<1, 1>>
NInf == <<1, -1>>
NaN == <<2, 0>>
Zero == F(0)
One == F(Unit)

IsFin(x) == x[1] = 0
IsInf(x) == x[1] = 1
IsNaN(x) == x[1] = 2

Sign(n) == IF n > 0 THEN 1 ELSE IF n < 0 THEN -1 ELSE 0
Abs(n) == IF n < 0 THEN -n ELSE n

\* n / d rounded to the nearest integer (ties away from zero), d > 0
RoundDiv(n, d) == Sign(n) * ((2 * Abs(n) + d) \div (2 * d))

RECURSIVE SqrtSearch(_, _, _)
SqrtSearch(n, lo, hi) ==
    IF hi - lo <= 1 THEN lo
    ELSE LET mid == (lo + hi) \div 2
         IN  IF mid * mid <= n THEN SqrtSearch(n, mid, hi)
                               ELSE SqrtSearch(n, lo, mid)

\* floor of the square root of n >= 0
ISqrt(n) == SqrtSearch(n, 0, IF n < 2^15 THEN n + 1 ELSE 2^15)

\* the square root of n >= 0 rounded to the nearest integer
RoundSqrt(n) == LET r == ISqrt(n) IN IF n - r * r > r THEN r + 1 ELSE r

FNeg(x) == IF IsNaN(x) THEN NaN ELSE <<x[1], -x[2]>>

FAbs(x) == IF IsNaN(x) THEN NaN ELSE <<x[1], Abs(x[2])>>

FAdd(x, y) ==
    IF IsNaN(x) \/ IsNaN(y) THEN NaN
    ELSE IF IsInf(x) /\ IsInf(y) THEN (IF x[2] = y[2] THEN x ELSE NaN)
    ELSE IF IsInf(x) THEN x
    ELSE IF IsInf(y) THEN y
    ELSE F(x[2] + y[2])

FSub(x, y) == FAdd(x, FNeg(y))

FMul(x, y) ==
    IF IsNaN(x) \/ IsNaN(y) THEN NaN
    ELSE IF IsInf(x) \/ IsInf(y)
         THEN (IF x[2] = 0 \/ y[2] = 0 THEN NaN
               ELSE <<1, Sign(x[2]) * Sign(y[2])>>)
    ELSE F(RoundDiv(x[2] * y[2], Unit))

FDiv(x, y) ==
    IF IsNaN(x) \/ IsNaN(y) THEN NaN
    ELSE IF IsInf(x) THEN (IF IsInf(y) THEN NaN
                           ELSE <<1, x[2] * (IF y[2] < 0 THEN -1 ELSE 1)>>)
    ELSE IF IsInf(y) THEN Zero
    ELSE IF y[2] = 0 THEN (IF x[2] = 0 THEN NaN ELSE <<1, Sign(x[2])>>)
    ELSE F(Sign(y[2]) * RoundDiv(x[2] * Unit, Abs(y[2])))

FSqrt(x) ==
    IF IsNaN(x) THEN NaN
    ELSE IF IsInf(x) THEN (IF x[2] > 0 THEN PInf ELSE NaN)
    ELSE IF x[2] < 0 THEN NaN
    ELSE F(RoundSqrt(x[2] * Unit))

\* x < y on floats: false when either side is NaN
FLt(x, y) ==
    IF IsNaN(x) \/ IsNaN(y) THEN FALSE
    ELSE IF IsInf(x) THEN x[2] < 0 /\ y # x
    ELSE IF IsInf(y) THEN y[2] > 0
    ELSE x[2] < y[2]

FGt(x, y) == FLt(y, x)

\* x >= y on floats: false when either side is NaN
FGe(x, y) == ~IsNaN(x) /\ ~IsNaN(y) /\ ~FLt(x, y)

\* pow(x, 2)
Pow2(x) == FMul(x, x)


\* ------------------------------------------------------ the four operators
\* Each operator is the array its parallel-for leaves behind.  Apart from the
\* isotropic projection (modelled thread by thread further down) every loop
\* body uses only private scalars, writes the one cell `index` of arrays no
\* body reads, and reads arrays no body writes, so the result does not depend
\* on the schedule.

\* Obj_func2D: D = A - lambda * (backward-difference divergence of R)
Obj_func2D(A, R1, R2, lam, dX, dY) ==
    [index \in 1..(dX * dY) |->
        LET i == (index - 1) % dX
            j == (index - 1) \div dX
            val1 == IF i = 0 THEN Zero ELSE R1[j * dX + (i - 1) + 1]
            val2 == IF j = 0 THEN Zero ELSE R2[(j - 1) * dX + i + 1]
        IN  FSub(A[index],
                 FMul(lam, FSub(FSub(FAdd(R1[index], R2[index]), val1), val2)))]

\* Grad_func2D: P_d = R_d + (1/(8*lambda)) * (forward difference of D)
Grad_func2D(D, R1, R2, lam, dX, dY) ==
    LET multip == FDiv(One, FMul(F(8 * Unit), lam))
        val1(index) == IF (index - 1) % dX = dX - 1 THEN Zero
                       ELSE FSub(D[index], D[index + 1])
        val2(index) == IF (index - 1) \div dX = dY - 1 THEN Zero
                       ELSE FSub(D[index], D[index + dX])
    IN  << [index \in 1..(dX * dY) |-> FAdd(R1[index], FMul(multip, val1(index)))],
           [index \in 1..(dX * dY) |-> FAdd(R2[index], FMul(multip, val2(index)))] >>

\* the anisotropic loop body of Proj_func2D / Proj_func3D on one component
ProjL1(p) ==
    LET a == FAbs(p)
        val == IF FLt(a, One) THEN One ELSE a
    IN  FDiv(p, val)

\* Rupd_func2D / Rupd_func3D on one array: R = P + ((tk-1)/tkp1) * (P - P_old)
RupdArr(Pd, Pd_old, tkp1v, tkv) ==
    LET multip == FDiv(FSub(tkv, One), tkp1v)
    IN  [index \in 1..Len(Pd) |->
            FAdd(Pd[index], FMul(multip, FSub(Pd[index], Pd_old[index])))]

Rupd_func2D(P1, P1_old, P2, P2_old, tkp1v, tkv) ==
    << RupdArr(P1, P1_old, tkp1v, tkv), RupdArr(P2, P2_old, tkp1v, tkv) >>

\* Obj_func3D
Obj_func3D(A, R1, R2, R3, lam, dX, dY, dZ) ==
    [index \in 1..(dX * dY * dZ) |->
        LET i == (index - 1) % dX
            j == ((index - 1) \div dX) % dY
            k == (index - 1) \div (dX * dY)
            val1 == IF i = 0 THEN Zero ELSE R1[index - 1]
            val2 == IF j = 0 THEN Zero ELSE R2[index - dX]
            val3 == IF k = 0 THEN Zero ELSE R3[index - dX * dY]
        IN  FSub(A[index],
                 FMul(lam, FSub(FSub(FSub(FAdd(FAdd(R1[index], R2[index]), R3[index]),
                                          val1), val2), val3)))]

\* Grad_func3D
Grad_func3D(D, R1, R2, R3, lam, dX, dY, dZ) ==
    LET multip == FDiv(One, FMul(F(8 * Unit), lam))
        val1(index) == IF (index - 1) % dX = dX - 1 THEN Zero
                       ELSE FSub(D[index], D[index + 1])
        val2(index) == IF ((index - 1) \div dX) % dY = dY - 1 THEN Zero
                       ELSE FSub(D[index], D[index + dX])
        val3(index) == IF (index - 1) \div (dX * dY) = dZ - 1 THEN Zero
                       ELSE FSub(D[index], D[index + dX * dY])
        N == dX * dY * dZ
    IN  << [index \in 1..N |-> FAdd(R1[index], FMul(multip, val1(index)))],
           [index \in 1..N |-> FAdd(R2[index], FMul(multip, val2(index)))],
           [index \in 1..N |-> FAdd(R3[index], FMul(multip, val3(index)))] >>

Rupd_func3D(P1, P1_old, P2, P2_old, P3, P3_old, tkp1v, tkv) ==
    << RupdArr(P1, P1_old, tkp1v, tkv), RupdArr(P2, P2_old, tkp1v, tkv),
       RupdArr(P3, P3_old, tkp1v, tkv) >>

\* tkp1 = (1 + sqrt(1 + 4*tk*tk)) * 0.5
NextT(tkv) ==
    FMul(FAdd(One, FSqrt(FAdd(One, FMul(FMul(F(4 * Unit), tkv), tkv)))),
         F(Unit \div 2))

RECURSIVE SumSqDiff(_, _, _)
\* re after the loop `re += pow(Output[j] - Output_prev[j], 2)` over j < n
SumSqDiff(Out, Prev, n) ==
    IF n = 0 THEN Zero
    ELSE FAdd(SumSqDiff(Out, Prev, n - 1), Pow2(FSub(Out[n], Prev[n])))

RECURSIVE SumSq(_, _)
\* re1 after the loop `re1 += pow(Output[j], 2)` over j < n
SumSq(Out, n) ==
    IF n = 0 THEN Zero ELSE FAdd(SumSq(Out, n - 1), Pow2(Out[n]))

\* re = sqrt(re)/sqrt(re1)
Residual(Out, Prev) ==
    FDiv(FSqrt(SumSqDiff(Out, Prev, Len(Out))), FSqrt(SumSq(Out, Len(Out))))

\* the clamp loop: if (Output[j] < 0.0f) Output[j] = 0.0f
Clamp(Out) == [j \in 1..Len(Out) |-> IF FLt(Out[j], Zero) THEN Zero ELSE Out[j]]

\* copyIm(A, U, ...): U becomes a copy of A (utils.c)
copyIm(A) == [index \in 1..Len(A) |-> A[index]]

\* ------------------------------------------------------------------- state

VARIABLES
    Input, lambda, iter, epsil, methodTV, nonneg, printM, dimX, dimY, dimZ,
    Output, Output_prev, P, P_prev, R,   \* P[d] is P_d, P_prev[d] is P_d_prev, R[d] is R_d
    tk, tkp1, count, ll, re,
    pc,        \* the statement TV_FGP_CPU is at
    mem,       \* buffer name -> "live" | "null" | "freed"
    thr,       \* isotropic projection: thread -> [n: cells done, ph: phase]
    denom,     \* isotropic projection: the copies of `denom`
    out,       \* the values printed by printf
    ret,       \* the value returned
    nIter,     \* history: loop bodies entered
    reHist     \* history: the value of re in each stopping test

args == <<Input, lambda, iter, epsil, methodTV, nonneg, printM, dimX, dimY, dimZ>>
bufs == <<Output_prev, P, P_prev, R>>
loopv == <<tk, tkp1, count, ll, re>>
proj == <<thr, denom>>
hist == <<nIter, reHist>>
vars == <<args, Output, bufs, loopv, pc, mem, proj, out, ret, hist>>

\* the content of a cell nothing has written since its allocation
Indet == <<3, 0>>

\* what a read of such a cell may find
Garbage == {Zero, One, NaN}

DimTotal == IF dimZ <= 1 THEN dimX * dimY ELSE dimX * dimY * dimZ
NAxes == IF dimZ <= 1 THEN 2 ELSE 3

\* the buffers in the order TV_FGP_CPU allocates them
BufNames ==
    IF dimZ <= 1
    THEN <<"Output_prev", "P1", "P2", "P1_prev", "P2_prev", "R1", "R2">>
    ELSE <<"Output_prev", "P1", "P2", "P3", "P1_prev", "P2_prev", "P3_prev",
           "R1", "R2", "R3">>

PNames == IF dimZ <= 1 THEN {"P1", "P2"} ELSE {"P1", "P2", "P3"}
PPrevNames == IF dimZ <= 1 THEN {"P1_prev", "P2_prev"}
              ELSE {"P1_prev", "P2_prev", "P3_prev"}
RNames == IF dimZ <= 1 THEN {"R1", "R2"} ELSE {"R1", "R2", "R3"}

Fresh(n) == [index \in 1..n |-> Indet]

\* the array a read finds: each cell never written holds g
Fix(A, g) == [index \in 1..Len(A) |-> IF A[index] = Indet THEN g ELSE A[index]]
FixAll(As, g) == [d \in 1..Len(As) |-> Fix(As[d], g)]

HasIndet(A) == \E index \in 1..Len(A) : A[index] = Indet
Reads(As) == IF \E d \in 1..Len(As) : HasIndet(As[d]) THEN Garbage ELSE {Zero}

\* ------------------------------------------------------------------- calls

Lambdas == {Zero, One}
Epsilons == {Zero, F((27 * Unit) \div 128), F(100 * Unit)}
Inputs2D == { <<Zero, Zero>>, <<One, Zero>>, <<One, F(-(Unit \div 2))>> }
Inputs3D == { <<F(4 * Unit), Zero, F(-Unit), Zero>> }

\* <<Input, lambda, iter, epsil, methodTV, nonneg, printM, dimX, dimY, dimZ>>
Calls2D ==
    { <<A, lam, it, eps, m, nn, pr, 2, 1, 1>> :
        A \in Inputs2D, lam \in Lambdas, it \in 0..MaxIter, eps \in Epsilons,
        m \in {0, 1}, nn \in {0, 1}, pr \in {0, 1} }

Calls3D ==
    { <<A, F(Unit \div 4), it, Zero, m, 1, 1, 2, 1, 2>> :
        A \in Inputs3D, it \in 1..MaxIter3D, m \in {0, 1} }

Calls == Calls2D \cup Calls3D

Init ==
    /\ \E c \in Calls :
         /\ Input = c[1]
         /\ lambda = c[2]
         /\ iter = c[3]
         /\ epsil = c[4]
         /\ methodTV = c[5]
         /\ nonneg = c[6]
         /\ printM = c[7]
         /\ dimX = c[8]
         /\ dimY = c[9]
         /\ dimZ = c[10]
    /\ Output = Fresh(DimTotal)
    /\ Output_prev = <<>>
    /\ P = <<>>
    /\ P_prev = <<>>
    /\ R = <<>>
    /\ tk = One
    /\ tkp1 = One
    /\ count = 0
    /\ ll = 0
    /\ re = Indet
    /\ pc = "malloc"
    /\ mem = <<>>
    /\ thr = <<>>
    /\ denom = <<>>
    /\ out = <<>>
    /\ ret = Indet
    /\ nIter = 0
    /\ reHist = <<>>

\* mutant: the loop test off by one
LoopTestLe(l) == IF l <= iter THEN "obj" ELSE "print"

\* for(ll = ...; ll < iter; ...): the statement after the loop test
LoopTest(l) == IF l < iter THEN "obj" ELSE "print"

IsNull(names) == \E k \in 1..Len(mem) : BufNames[k] \in names /\ mem[k] = "null"

\* the buffers the statement at pc dereferences
Touched ==
    CASE pc = "obj" -> RNames
      [] pc = "grad" -> PNames \cup RNames
      [] pc = "proj" -> PNames
      [] pc = "rupd" -> PNames \cup PPrevNames \cup RNames
      [] pc = "check" -> {"Output_prev"}
      [] pc = "copy" -> {"Output_prev"} \cup PNames \cup PPrevNames
      [] OTHER -> {}

\* lines 53-59, 105-114: the heap serves the first `avail` requests (all of
\* the same size) and returns NULL for the rest; no result is tested
Malloc ==
    /\ pc = "malloc"
    /\ \E avail \in 0..Len(BufNames) :
         LET got(name) == \E k \in 1..avail : BufNames[k] = name
             arr(name) == IF got(name) THEN Fresh(DimTotal) ELSE <<>>
         IN  /\ mem' = [k \in 1..Len(BufNames) |-> IF k <= avail THEN "live" ELSE "null"]
             /\ Output_prev' = arr("Output_prev")
             /\ P' = IF dimZ <= 1 THEN <<arr("P1"), arr("P2")>>
                                  ELSE <<arr("P1"), arr("P2"), arr("P3")>>
             /\ P_prev' = IF dimZ <= 1 THEN <<arr("P1_prev"), arr("P2_prev")>>
                          ELSE <<arr("P1_prev"), arr("P2_prev"), arr("P3_prev")>>
             /\ R' = IF dimZ <= 1 THEN <<arr("R1"), arr("R2")>>
                                  ELSE <<arr("R1"), arr("R2"), arr("R3")>>
    /\ pc' = LoopTest(0)
    /\ UNCHANGED <<args, Output, loopv, proj, out, ret, hist>>

\* a load or store through a NULL buffer: the process is killed
NullDeref ==
    /\ IsNull(Touched)
    /\ pc' = "crashed"
    /\ UNCHANGED <<args, Output, bufs, loopv, mem, proj, out, ret, hist>>

\* lines 65, 120
Obj ==
    /\ pc = "obj"
    /\ ~IsNull(Touched)
    /\ \E g \in Reads(R) :
         /\ R' = FixAll(R, g)
         /\ Output' = IF dimZ <= 1
                      THEN Obj_func2D(Input, R'[1], R'[2], lambda, dimX, dimY)
                      ELSE Obj_func3D(Input, R'[1], R'[2], R'[3], lambda, dimX, dimY, dimZ)
    /\ nIter' = nIter + 1
    /\ pc' = IF nonneg = 1 THEN "clamp" ELSE "grad"
    /\ UNCHANGED <<args, Output_prev, P, P_prev, loopv, mem, proj, out, ret, reHist>>

\* lines 68, 123
Nonneg ==
    /\ pc = "clamp"
    /\ Output' = Clamp(Output)
    /\ pc' = "grad"
    /\ UNCHANGED <<args, bufs, loopv, mem, proj, out, ret, hist>>

\* lines 71, 126
Grad ==
    /\ pc = "grad"
    /\ ~IsNull(Touched)
    /\ P' = IF dimZ <= 1
            THEN Grad_func2D(Output, R[1], R[2], lambda, dimX, dimY)
            ELSE Grad_func3D(Output, R[1], R[2], R[3], lambda, dimX, dimY, dimZ)
    /\ pc' = "proj"
    /\ UNCHANGED <<args, Output, Output_prev, P_prev, R, loopv, mem, proj, out, ret, hist>>

\* ----------------------------------------------------- the projection step
\* lines 74, 129.  The anisotropic loops declare every scalar they use
\* private; so does the isotropic loop of Proj_func2D.  The private clause of
\* the isotropic loop of Proj_func3D (line 286) does not list `denom`, which
\* is therefore one variable shared by all threads.

\* Proj_func2D / Proj_func3D, methTV != 0
ProjAniso ==
    /\ pc = "proj"
    /\ ~IsNull(Touched)
    /\ methodTV # 0
    /\ P' = [d \in 1..NAxes |-> [index \in 1..DimTotal |-> ProjL1(P[d][index])]]
    /\ pc' = "rupd"
    /\ UNCHANGED <<args, Output, Output_prev, P_prev, R, loopv, mem, proj, out, ret, hist>>

\* the threads of the parallel-for: one per value of the outer index i
Threads == 0..(dimX - 1)

\* whether each thread has its own copy of `denom`
DenomPrivate == dimZ <= 1

\* the copy of `denom` thread t reads and writes
Slot(t) == IF DenomPrivate THEN t ELSE 0

\* the number of cells the inner loops of one thread visit
CellsPerThread == IF dimZ <= 1 THEN dimY ELSE dimY * dimZ

\* the index of the n-th cell thread i visits (j outer, k inner)
CellOf(i, n) ==
    IF dimZ <= 1 THEN n * dimX + i + 1
    ELSE dimX * dimY * (n % dimZ) + (n \div dimZ) * dimX + i + 1

\* Proj_func2D / Proj_func3D, methTV == 0: the parallel region starts
ProjFork ==
    /\ pc = "proj"
    /\ ~IsNull(Touched)
    /\ methodTV = 0
    /\ thr' = [t \in Threads |-> [n |-> 0, ph |-> "denom"]]
    /\ denom' = [t \in (IF DenomPrivate THEN Threads ELSE {0}) |-> Zero]
    /\ pc' = "proj_iso"
    /\ UNCHANGED <<args, Output, bufs, loopv, mem, out, ret, hist>>

\* pow(P1[index],2) + pow(P2[index],2) (+ pow(P3[index],2))
SumSqAt(Ps, index) ==
    IF Len(Ps) = 2 THEN FAdd(Pow2(Ps[1][index]), Pow2(Ps[2][index]))
    ELSE FAdd(FAdd(Pow2(Ps[1][index]), Pow2(Ps[2][index])), Pow2(Ps[3][index]))

Advance(t) == [thr EXCEPT ![t] = [n |-> thr[t].n + 1, ph |-> "denom"]]

\* lines 202, 291: denom = ...
ProjDenom(t) ==
    /\ pc = "proj_iso"
    /\ thr[t].ph = "denom"
    /\ thr[t].n < CellsPerThread
    /\ denom' = [denom EXCEPT ![Slot(t)] = SumSqAt(P, CellOf(t, thr[t].n))]
    /\ thr' = [thr EXCEPT ![t].ph = "test"]
    /\ UNCHANGED <<args, Output, bufs, loopv, pc, mem, out, ret, hist>>

\* lines 203, 292: if (denom > 1.0f)
ProjTest(t) ==
    /\ pc = "proj_iso"
    /\ thr[t].ph = "test"
    /\ thr' = IF FGt(denom[Slot(t)], One)
              THEN [thr EXCEPT ![t].ph = "scale"]
              ELSE Advance(t)
    /\ UNCHANGED <<args, Output, bufs, loopv, pc, mem, denom, out, ret, hist>>

\* lines 204-206, 293-296: sq_denom = 1.0f/sqrt(denom); P_d[index] *= sq_denom
ProjScale(t) ==
    /\ pc = "proj_iso"
    /\ thr[t].ph = "scale"
    /\ LET sq_denom == FDiv(One, FSqrt(denom[Slot(t)]))
           index == CellOf(t, thr[t].n)
       IN  P' = [d \in 1..NAxes |-> [P[d] EXCEPT ![index] = FMul(P[d][index], sq_denom)]]
    /\ thr' = Advance(t)
    /\ UNCHANGED <<args, Output, Output_prev, P_prev, R, loopv, pc, mem, denom, out, ret, hist>>

\* the barrier that ends the parallel-for; return 1
ProjJoin ==
    /\ pc = "proj_iso"
    /\ \A t \in Threads : thr[t].n = CellsPerThread
    /\ thr' = <<>>
    /\ denom' = <<>>
    /\ pc' = "rupd"
    /\ UNCHANGED <<args, Output, bufs, loopv, mem, out, ret, hist>>

\* ---------------------------------------------------- the rest of the loop

\* lines 77-78, 132-133
Rupd ==
    /\ pc = "rupd"
    /\ ~IsNull(Touched)
    /\ tkp1' = NextT(tk)
    /\ \E g \in Reads(P_prev) :
         /\ P_prev' = FixAll(P_prev, g)
         /\ R' = IF dimZ <= 1
                 THEN Rupd_func2D(P[1], P_prev'[1], P[2], P_prev'[2], tkp1', tk)
                 ELSE Rupd_func3D(P[1], P_prev'[1], P[2], P_prev'[2], P[3], P_prev'[3],
                                  tkp1', tk)
    /\ pc' = "check"
    /\ UNCHANGED <<args, Output, Output_prev, P, tk, count, ll, re, mem, proj, out, ret, hist>>

\* mutant: a counter of consecutive tests below the tolerance
NextCountConsecutive(c, r, eps) == IF FLt(r, eps) THEN c + 1 ELSE 0

\* mutant: the test written as !(re >= epsil)
NextCountNotGe(c, r, eps) == IF ~FGe(r, eps) THEN c + 1 ELSE c

\* if (re < epsil) count++;
NextCount(c, r, eps) == IF FLt(r, eps) THEN c + 1 ELSE c

\* lines 81-89, 136-145: the residual, the counter, the break
Check ==
    /\ pc = "check"
    /\ ~IsNull(Touched)
    /\ \E g \in Reads(<<Output_prev>>) :
         /\ Output_prev' = Fix(Output_prev, g)
         /\ re' = Residual(Output, Output_prev')
    /\ count' = NextCount(count, re', epsil)
    /\ reHist' = Append(reHist, re')
    /\ pc' = IF count' > 4 THEN "print" ELSE "copy"
    /\ UNCHANGED <<args, Output, P, P_prev, R, tk, tkp1, ll, mem, proj, out, ret, nIter>>

\* lines 92-95, 148-152, and the ll++ of the for statement
Copy ==
    /\ pc = "copy"
    /\ ~IsNull(Touched)
    /\ Output_prev' = copyIm(Output)
    /\ P_prev' = [d \in 1..NAxes |-> copyIm(P[d])]
    /\ tk' = tkp1
    /\ ll' = ll + 1
    /\ pc' = LoopTest(ll')
    /\ UNCHANGED <<args, Output, P, R, tkp1, count, re, mem, proj, out, ret, hist>>

\* the argument of printf("FGP-TV iterations stopped at iteration %i \n", ll)
Reported(l) == l

\* lines 97, 154
Printf ==
    /\ pc = "print"
    /\ out' = IF printM = 1 THEN Append(out, Reported(ll)) ELSE out
    /\ pc' = "free"
    /\ UNCHANGED <<args, Output, bufs, loopv, mem, proj, ret, hist>>

\* lines 98, 155: free(NULL) does nothing
Free ==
    /\ pc = "free"
    /\ mem' = [k \in 1..Len(mem) |-> IF mem[k] = "live" THEN "freed" ELSE mem[k]]
    /\ Output_prev' = <<>>
    /\ P' = <<>>
    /\ P_prev' = <<>>
    /\ R' = <<>>
    /\ pc' = "return"
    /\ UNCHANGED <<args, Output, loopv, proj, out, ret, hist>>

\* line 157: return *Output
Return ==
    /\ pc = "return"
    /\ \E g \in Reads(<<Output>>) :
         /\ Output' = Fix(Output, g)
         /\ ret' = Output'[1]
    /\ pc' = "done"
    /\ UNCHANGED <<args, bufs, loopv, mem, proj, out, hist>>

Next ==
    \/ Malloc
    \/ NullDeref
    \/ Obj
    \/ Nonneg
    \/ Grad
    \/ ProjAniso
    \/ ProjFork
    \/ \E t \in Threads : ProjDenom(t)
    \/ \E t \in Threads : ProjTest(t)
    \/ \E t \in Threads : ProjScale(t)
    \/ ProjJoin
    \/ Rupd
    \/ Check
    \/ Copy
    \/ Printf
    \/ Free
    \/ Return

Spec == Init /\ [][Next]_vars

\* ------------------------------------------------- the call, run in order
\* One whole call with the loop bodies of every parallel-for taken in index
\* order, for given stale contents of the R_d, P_d_prev and Output_prev
\* blocks: <<Output, ll>> at return.

ProjInOrder(Ps) ==
    IF methodTV = 0
    THEN [d \in 1..Len(Ps) |-> [index \in 1..Len(Ps[d]) |->
            LET dn == SumSqAt(Ps, index)
            IN  IF FGt(dn, One) THEN FMul(Ps[d][index], FDiv(One, FSqrt(dn)))
                ELSE Ps[d][index]]]
    ELSE [d \in 1..Len(Ps) |-> [index \in 1..Len(Ps[d]) |-> ProjL1(Ps[d][index])]]

RECURSIVE RunLoop(_)
RunLoop(s) ==
    IF s.ll >= iter THEN <<s.Out, s.ll>>
    ELSE LET D1 == IF dimZ <= 1
                   THEN Obj_func2D(Input, s.Rs[1], s.Rs[2], lambda, dimX, dimY)
                   ELSE Obj_func3D(Input, s.Rs[1], s.Rs[2], s.Rs[3], lambda, dimX, dimY, dimZ)
             D == IF nonneg = 1 THEN Clamp(D1) ELSE D1
             G == IF dimZ <= 1
                  THEN Grad_func2D(D, s.Rs[1], s.Rs[2], lambda, dimX, dimY)
                  ELSE Grad_func3D(D, s.Rs[1], s.Rs[2], s.Rs[3], lambda, dimX, dimY, dimZ)
             Pn == ProjInOrder(G)
             t1 == NextT(s.tk)
             Rn == [d \in 1..Len(Pn) |-> RupdArr(Pn[d], s.Pp[d], t1, s.tk)]
             c == NextCount(s.count, Residual(D, s.Prev), epsil)
         IN  IF c > 4 THEN <<D, s.ll>>
             ELSE RunLoop([Out |-> D, Prev |-> copyIm(D), Pp |-> Pn, Rs |-> Rn,
                           tk |-> t1, count |-> c, ll |-> s.ll + 1])

RunInOrder(gR, gP, gO) ==
    RunLoop([Out |-> Output, Prev |-> Fix(Fresh(DimTotal), gO),
             Pp |-> [d \in 1..NAxes |-> Fix(Fresh(DimTotal), gP)],
             Rs |-> [d \in 1..NAxes |-> Fix(Fresh(DimTotal), gR)],
             tk |-> One, count |-> 0, ll |-> 0])

\* ------------------------------------------------------------------ claims

AfterLoop == pc \in {"print", "free", "return", "done"}
Printed == pc \in {"free", "return", "done"}
AnyNull == \E k \in 1..Len(mem) : mem[k] = "null"
AllNonNeg == \A j \in 1..Len(Output) : FGe(Output[j], Zero)

\* the stopping tests whose residual was below the tolerance
Hit(k) == FLt(reHist[k], epsil)
Hits == {k \in 1..Len(reHist) : Hit(k)}
NonConsecutiveHits ==
    \E a, b, c \in 1..Len(reHist) : a < b /\ b < c /\ Hit(a) /\ ~Hit(b) /\ Hit(c)

\* a configuration outside the caller's contract
InvalidConfig ==
    \/ ~FGt(lambda, Zero)
    \/ iter <= 0
    \/ dimX <= 0
    \/ dimY <= 0

\* C1: in a call with a valid configuration and nonneg == 1, from the clamp
\* of an iteration on (through the dual step, projection, momentum update,
\* stopping test, snapshot, and at return) every Output sample is >= 0.
C1_NonNegative ==
    (~InvalidConfig /\ nonneg = 1 /\ nIter >= 1 /\ pc # "clamp") => AllNonNeg

\* the rounding slack of the fixed-point products in a rescaled position
IsoTol == (Unit * Unit) \div 16

FiniteAt(index) == \A d \in 1..NAxes : IsFin(P[d][index])
SquaresAt(index) ==
    LET q(d) == P[d][index][2] * P[d][index][2]
    IN  IF NAxes = 2 THEN q(1) + q(2) ELSE q(1) + q(2) + q(3)

\* C2: when the isotropic projection has returned, at every grid position
\* (with finite components) the sum of squares of the P components is <= 1,
\* up to rounding, in 2D and in 3D and for every interleaving of the threads.
C2_IsotropicBound ==
    (pc = "rupd" /\ methodTV = 0) =>
        \A index \in 1..DimTotal :
            FiniteAt(index) => SquaresAt(index) <= Unit * Unit + IsoTol

\* the steps the projection's threads still have to take
RECURSIVE ThreadSteps(_)
ThreadSteps(t) ==
    IF t < 0 THEN 0
    ELSE ThreadSteps(t - 1) + 3 * (CellsPerThread - thr[t].n)
         - (CASE thr[t].ph = "denom" -> 0 [] thr[t].ph = "test" -> 1 [] OTHER -> 2)

\* an upper bound on the steps left in the call
Rank ==
    LET W == 3 * CellsPerThread * dimX
        left == (iter - ll - 1) * (W + 9) + 4
    IN  CASE pc = "malloc" -> iter * (W + 9) + 5
          [] pc = "obj" -> left + W + 8
          [] pc = "clamp" -> left + W + 7
          [] pc = "grad" -> left + W + 6
          [] pc = "proj" -> left + W + 5
          [] pc = "proj_iso" -> left + ThreadSteps(dimX - 1) + 4
          [] pc = "rupd" -> left + 3
          [] pc = "check" -> left + 2
          [] pc = "copy" -> left + 1
          [] pc = "print" -> 3
          [] pc = "free" -> 2
          [] pc = "return" -> 1
          [] OTHER -> 0

\* C3: the loop body is entered at most iter times; every step of the call
\* brings it strictly closer to its end, so that no call runs for ever; a
\* call with epsil = 0 that returns has run exactly
\* iter iterations, whatever the residuals were (zero, infinite or NaN).
C3_Terminates ==
    /\ [](nIter <= iter /\ Rank >= 0)
    /\ [][Rank' < Rank]_vars
    /\ []((pc = "done" /\ epsil = Zero) => (nIter = iter /\ ll = iter /\ count = 0))

C3_Witness ==
    /\ pc = "done"
    /\ epsil = Zero
    /\ nIter = iter
    /\ iter >= 3
    /\ \E k \in 1..Len(reHist) : reHist[k] = Zero
    /\ \E k \in 1..Len(reHist) : IsNaN(reHist[k])

\* C4: in a call with a valid configuration the first gradient step reads R_d arrays that are zero everywhere, and
\* therefore leaves Output equal to Input (before the clamp).
C4_DualsStartAtZero ==
    (~InvalidConfig /\ ll = 0 /\ pc \in {"clamp", "grad"}) =>
        /\ \A d \in 1..NAxes : \A index \in 1..DimTotal : R[d][index] = Zero
        /\ (pc = "clamp" \/ nonneg # 1) => Output = Input

\* C5: a call with a valid configuration that returns has the Output and the stopping iteration of every
\* other call with the same arguments, whatever the malloc'ed blocks held;
\* and the stopping test reads only an Output_prev that copyIm has written.
C5_Deterministic ==
    /\ (~InvalidConfig /\ pc = "done" /\ nIter >= 1) =>
          \A gR \in Garbage, gP \in Garbage, gO \in Garbage :
              RunInOrder(gR, gP, gO) = <<Output, ll>>
    /\ (~InvalidConfig /\ pc = "check") => ~HasIndet(Output_prev)

\* C6: in a call with a valid configuration, when a malloc has returned NULL
\* no iteration starts, no NULL buffer is dereferenced and the call does not
\* return as if it had succeeded; when the call returns, no buffer is left
\* allocated.
C6_AllocationFailure ==
    /\ (~InvalidConfig /\ AnyNull) => (nIter = 0 /\ pc \notin {"crashed", "done"})
    /\ (~InvalidConfig /\ pc = "done") => \A k \in 1..Len(mem) : mem[k] # "live"

\* C7: a call with lambda <= 0, a non-positive extent or a non-positive
\* iteration cap runs no operator, leaves Output as it was and does not
\* return normally.
C7_RejectsInvalid ==
    InvalidConfig => (nIter = 0 /\ Output = Fresh(DimTotal) /\ pc # "done")

\* C8: count is the number of stopping tests so far with re < epsil, wherever
\* they fell; the loop is left by the break exactly when that number reaches
\* 5, in the iteration of the 5th such test, and that iteration does not
\* take the snapshot (ll, tk keep the values the iteration ran with).
C8_CumulativeCounter ==
    /\ count = Cardinality(Hits)
    /\ (pc \notin {"malloc", "crashed"} /\ ~AfterLoop) => count <= 4
    /\ count > 4 =>
          /\ count = 5
          /\ AfterLoop
          /\ Hit(Len(reHist))
          /\ ll = Len(reHist) - 1
          /\ tkp1 = NextT(tk)
    /\ (AfterLoop /\ count <= 4) => (ll = iter /\ Len(reHist) = iter)

C8_Witness ==
    /\ pc = "done"
    /\ count > 4
    /\ NonConsecutiveHits

\* C9: a stopping test whose denominator (the sum of squares of Output) is
\* exactly zero leaves count as it was and goes on to the snapshot; a call
\* all of whose residuals were infinite or NaN (as with an all-zero Output in
\* every iteration) runs to the cap with count = 0, for any epsil.
C9_ZeroDenominator ==
    /\ [][(pc = "check" /\ pc' # "crashed" /\ SumSq(Output, Len(Output)) = Zero)
            => (count' = count /\ pc' = "copy")]_vars
    /\ []((AfterLoop /\ \A k \in 1..Len(reHist) : ~IsFin(reHist[k]))
            => (count = 0 /\ ll = iter))

C9_Witness ==
    /\ pc = "done"
    /\ FGt(epsil, One)
    /\ iter >= 3
    /\ nIter = iter
    /\ \A j \in 1..Len(Output) : Output[j] = Zero
    /\ \A k \in 1..Len(reHist) : IsNaN(reHist[k])

\* C10: with printM == 1 one line is printed and its value is the
\* number of iterations executed, which is <= iter.
C10_ReportsExecuted ==
    Printed => /\ nIter <= iter
               /\ IF printM = 1 THEN out = <<nIter>> ELSE out = <<>>

=============================================================================
